---- MODULE Spec2Model ----
(***************************************************************************)
(* Behavioural model of the Mattermost agent bot: the event router         *)
(* (Bot.handleWebSocketEvent), the agent (BotAgent.MessagePosted and the   *)
(* functions it calls), the streaming publisher (BotAgent.processStream    *)
(* fed by AnthropicBackend.PromptStream), the cleanup sweeper              *)
(* (BotAgent.cleanupStaleThreads), the thread context builder              *)
(* (BotAgent.getThreadContext), the tool-use loop (AnthropicBackend.Prompt)*)
(* and the connection supervisor (Bot.start, handleWebSocketReconnection,  *)
(* startEventListener).                                                    *)
(*                                                                         *)
(* Strings are sequences of one-character strings, so that                 *)
(* strings.Contains, len and concatenation are computed, not assumed.      *)
(***************************************************************************)
EXTENDS Integers, Sequences, FiniteSets, TLC

VARIABLES
    \* ---- BotAgent fields
    activeThreads,   \* BotAgent.activeThreads: the keys of the map
    lastCleanup,     \* BotAgent.lastCleanup, in minutes
    \* ---- environment
    now,             \* wall clock, in minutes
    reachable,       \* post ids for which Chat.GetMessage succeeds
    \* ---- receive loop and the handler it runs
    pc,              \* position of the receive loop's goroutine
    event,           \* the raw event last taken from the event channel
    handed,          \* TRUE when the router handed that event to the agent
    respond,         \* what shouldRespond returned for it
    out,             \* upstream calls made while handling it, in order
    \* ---- streaming session (respondWithStream / processStream / PromptStream)
    chunkChan,       \* buffered channel of StreamChunk
    chanClosed,      \* TRUE once the producer goroutine closed chunkChan
    prod,            \* producer goroutine of PromptStream: [pc, response, i]
    ctxDone,         \* TRUE once ctx.Done() is closed (deadline or cancel())
    responseBuffer,  \* processStream's responseBuffer
    messageID,       \* the id processStream updates
    ticks,           \* ticker firings consumed by processStream
    placeholder,     \* the placeholder message on the platform
    \* ---- cleanup sweeper, history of the acting sweeps
    sweep,
    \* ---- thread context builder
    ctxIn,           \* inputs of a call of getThreadContext
    ctxOut,          \* what respondToMessage got from it
    \* ---- response decision engine
    decIn,           \* inputs of a call of shouldRespond
    decOut,          \* what MessagePosted got from it
    \* ---- connection supervisor (Bot.start, handleWebSocketReconnection)
    proc,            \* the process: "starting", "running" or "dead"
    wsClient,        \* Bot.wsClient: NilClient or the handle of a connection
    closed,          \* handles whose EventChannel the client library closed
    listeners,       \* goroutines of startEventListener: [id, pc]
    failed,          \* consecutive failed reconnection attempts
    conns,           \* connections opened so far
    \* ---- tool-use loop (AnthropicBackend.Prompt)
    llm              \* frame of a call of Prompt

streamVars == <<chunkChan, chanClosed, prod, ctxDone, responseBuffer, messageID, ticks, placeholder>>
callVars   == <<ctxIn, ctxOut, decIn, decOut>>
connVars   == <<proc, wsClient, closed, listeners, failed, conns>>
vars == <<activeThreads, lastCleanup, now, reachable, pc, event, handed, respond,
          out, chunkChan, chanClosed, prod, ctxDone, responseBuffer,
          messageID, ticks, placeholder, sweep, ctxIn, ctxOut, decIn, decOut,
          proc, wsClient, closed, listeners, failed, conns, llm>>

----------------------------------------------------------------------------
(* Bounds *)
MaxId == 2            \* post ids are 1..MaxId
MaxTextLen == 2       \* longest message text, in characters
TimeStep == 5         \* granularity of the clock, in minutes
MaxRespLen == 1       \* longest LLM response under Spec, in characters
MaxTicks == 1         \* ticker firings per streaming session under Spec
MaxStreamLen == 21    \* longest LLM response under StreamSpec: three chunks
MaxStreamTicks == 3   \* ticker firings per session under StreamSpec
MaxSweepId == 6       \* thread ids under SweepSpec are 1..MaxSweepId

(* Program constants *)
EmptyId == 0          \* the empty string used as "no id"
CleanupInterval == 10 \* minutes between acting sweeps
SampleBound == 5      \* ids probed per sweep
chunkSize == 10       \* characters per simulated chunk
chanCap == 10         \* capacity of chunkChan

----------------------------------------------------------------------------
(* Strings: sequences of one-character strings *)
BoundedSeq(S, n) == UNION {[1..k -> S] : k \in 0..n}

\* strings.Contains(s, sub)
Contains(s, sub) ==
    \E i \in 0..(Len(s) - Len(sub)) : SubSeq(s, i + 1, i + Len(sub)) = sub

Min(a, b) == IF a < b THEN a ELSE b

\* Identity of the agent: a one-character handle and a one-character user id
botUsername == <<"b">>
botUserID == <<"u">>
otherUserID == <<"a">>

Ids == 1..MaxId
Chars == {"@", "b", "u"}
Texts == BoundedSeq(Chars, MaxTextLen)
UserIds == {botUserID, otherUserID}

\* Fixed texts of the agent, each as one opaque character
Thinking == <<"_Thinking..._">>
NoResponse == <<"_No response generated_">>
ErrorNote == <<"\n\n_Error: Failed to complete response_">>
CancelNote == <<"\n\n_Response cancelled_">>
Apology == <<"I'm sorry, I'm having trouble processing your request right now. Please try again later.">>

\* The text an LLM call returns is a prefix of the alphabet
Letters == <<"a", "b", "c", "d", "e", "f", "g", "h", "i", "j", "k", "l", "m",
             "n", "o", "p", "q", "r", "s", "t", "u", "v", "w", "x", "y", "z">>
Responses(n) == {SubSeq(Letters, 1, k) : k \in 1..n}

----------------------------------------------------------------------------
(* Event router *)
NoPost == [Id |-> EmptyId, UserId |-> <<>>, RootId |-> EmptyId, Message |-> <<>>]
Posts == {p \in [Id : Ids, UserId : UserIds, RootId : Ids \cup {EmptyId}, Message : Texts] :
            p.RootId # p.Id}
NoEvent == [type |-> "none", parsed |-> FALSE, post |-> NoPost, channel_type |-> "O"]
Events ==
    [type : {"posted"}, parsed : {TRUE}, post : Posts, channel_type : {"D", "O"}]
    \cup [type : {"posted"}, parsed : {FALSE}, post : {NoPost}, channel_type : {"D", "O"}]
    \cup [type : {"typing"}, parsed : {FALSE}, post : {NoPost}, channel_type : {"O"}]

\* handleWebSocketEvent: the conversion of the post to types.PostedMessage
PostedMessage(e) ==
    [PostId |-> e.post.Id, UserId |-> e.post.UserId, ThreadId |-> e.post.RootId,
     Message |-> e.post.Message, IsDM |-> (e.channel_type = "D")]

\* (mutant) the router without the check of the author
RouterDelivers_NoSelfCheck(e) ==
    /\ e.type = "posted"
    /\ e.parsed

\* startEventListener and handleWebSocketEvent: TRUE when the event reaches the agent
RouterDelivers(e) ==
    /\ e.type = "posted"
    /\ e.parsed
    /\ e.post.UserId # botUserID

----------------------------------------------------------------------------
(* Response decision engine *)
\* (mutant) only the "@" token counts as a mention
isMentioned_TokenOnly(m) ==
    Contains(m.Message, <<"@">> \o botUsername)

isMentioned(m) ==
    Contains(m.Message, <<"@">> \o botUsername) \/ Contains(m.Message, botUserID)

\* (mutant) every threaded message counts as in an active thread
isInActiveThread_AnyThread(m, at) == m.ThreadId # EmptyId

isInActiveThread(m, at) == m.ThreadId \in at /\ m.ThreadId # EmptyId

UpperLetters == <<"A", "B", "C", "D", "E", "F", "G", "H", "I", "J", "K", "L", "M",
                  "N", "O", "P", "Q", "R", "S", "T", "U", "V", "W", "X", "Y", "Z">>

\* strings.ToLower, one character
Lower(c) ==
    IF \E i \in 1..Len(UpperLetters) : UpperLetters[i] = c
    THEN Letters[CHOOSE i \in 1..Len(UpperLetters) : UpperLetters[i] = c]
    ELSE c

ToLower(s) == [i \in 1..Len(s) |-> Lower(s[i])]

\* strings.ToUpper, one character
Upper(c) ==
    IF \E i \in 1..Len(Letters) : Letters[i] = c
    THEN UpperLetters[CHOOSE i \in 1..Len(Letters) : Letters[i] = c]
    ELSE c

ToUpper(s) == [i \in 1..Len(s) |-> Upper(s[i])]

\* strings.TrimSpace
RECURSIVE TrimLeft(_)
TrimLeft(s) ==
    IF s # <<>> /\ Head(s) \in {" ", "\n"} THEN TrimLeft(Tail(s)) ELSE s

RECURSIVE TrimRight(_)
TrimRight(s) ==
    IF s # <<>> /\ s[Len(s)] \in {" ", "\n"} THEN TrimRight(SubSeq(s, 1, Len(s) - 1)) ELSE s

TrimSpace(s) == TrimRight(TrimLeft(s))

\* a character outside ASCII: U+00E9, two bytes in UTF-8
EAcute == "U+00E9"

\* the number of bytes of a character in a Go string
Width(c) == IF c = EAcute THEN 2 ELSE 1

\* len(s) of a Go string: its length in bytes
RECURSIVE ByteLen(_)
ByteLen(s) == IF s = <<>> THEN 0 ELSE Width(Head(s)) + ByteLen(Tail(s))

questionWords ==
    << <<"h","o","w">>, <<"w","h","a","t">>, <<"w","h","e","n">>, <<"w","h","e","r","e">>,
       <<"w","h","y">>, <<"w","h","o">>, <<"c","a","n"," ","y","o","u">>,
       <<"c","o","u","l","d"," ","y","o","u">>, <<"w","o","u","l","d"," ","y","o","u">>,
       <<"d","o"," ","y","o","u">> >>

\* (mutant) the test for casual conversation comes first
shouldRespondInThreadFallback_CasualFirst(m) ==
    LET msg == ToLower(m.Message) IN
    IF ByteLen(msg) < 10 \/ Contains(msg, <<"l","o","l">>) \/ Contains(msg, <<"h","a","h","a">>)
    THEN FALSE
    ELSE TRUE

shouldRespondInThreadFallback(m) ==
    LET msg == ToLower(m.Message) IN
    IF Contains(msg, <<"?">>) THEN TRUE
    ELSE IF \E k \in 1..Len(questionWords) : Contains(msg, questionWords[k]) THEN TRUE
    ELSE IF ByteLen(msg) < 10 \/ Contains(msg, <<"l","o","l">>) \/ Contains(msg, <<"h","a","h","a">>)
         THEN FALSE
    ELSE TRUE

\* What a.decisionLLM.Prompt returns: an error, or a reply
JudgeError == [err |-> TRUE, reply |-> <<>>]
JudgeReply(r) == [err |-> FALSE, reply |-> r]
JudgeOutcomes == {JudgeError, JudgeReply(<<"Y", "E", "S">>), JudgeReply(<<"N", "O">>)}

\* (mutant) the reply is searched without the conversion to upper case
shouldRespondInThreadLLM_CaseSensitive(m, judge) ==
    IF judge.err THEN shouldRespondInThreadFallback(m)
    ELSE Contains(TrimSpace(judge.reply), <<"Y", "E", "S">>)

\* (mutant) a failed call of the decision LLM means no response
shouldRespondInThreadLLM_ErrorSilent(m, judge) ==
    IF judge.err THEN FALSE
    ELSE Contains(TrimSpace(ToUpper(judge.reply)), <<"Y", "E", "S">>)

shouldRespondInThreadLLM(m, judge) ==
    IF judge.err THEN shouldRespondInThreadFallback(m)
    ELSE Contains(TrimSpace(ToUpper(judge.reply)), <<"Y", "E", "S">>)

\* (mutant) the DM flag is not looked at
shouldRespond_NoDM(m, at, judge) ==
    IF isMentioned(m) THEN TRUE
    ELSE IF isInActiveThread(m, at) THEN shouldRespondInThreadLLM(m, judge)
    ELSE FALSE

shouldRespond(m, at, judge) ==
    IF isMentioned(m) \/ m.IsDM THEN TRUE
    ELSE IF isInActiveThread(m, at) THEN shouldRespondInThreadLLM(m, judge)
    ELSE FALSE

\* (mutant) the thread judgment is made before the DM flag is looked at
callsJudge_BeforeDM(m, at) == ~isMentioned(m) /\ isInActiveThread(m, at)

\* TRUE when shouldRespond calls the decision LLM
callsJudge(m, at) == ~(isMentioned(m) \/ m.IsDM) /\ isInActiveThread(m, at)

----------------------------------------------------------------------------
(* Cleanup sweeper *)
\* (mutant) the loop breaks after two ids
Samples_Two(at) ==
    {S \in SUBSET at : Cardinality(S) = Min(2, Cardinality(at))}

\* (mutant) the range loop visits the keys in the same order every time, the
\* lowest ids first
Samples_Lowest(at) ==
    {S \in SUBSET at : /\ Cardinality(S) = Min(SampleBound, Cardinality(at))
                       /\ \A t \in S, u \in at \ S : t < u}

\* the ids the range loop visits before it breaks: any SampleBound of the keys
Samples(at) ==
    {S \in SUBSET at : Cardinality(S) = Min(SampleBound, Cardinality(at))}

\* (mutant) the sweep acts on every event
sweepDue_Always == TRUE

sweepDue == ~(now - lastCleanup < CleanupInterval)

\* (mutant) every probed id is deleted
staleRemoved_Probed(at, S) == at \ S

\* the map after the probed ids whose GetMessage failed are deleted
staleRemoved(at, S) == at \ {t \in S : t \notin reachable}

NoSweep == [run |-> 0, probed |-> {}, first |-> 0]

----------------------------------------------------------------------------
(* The log of upstream calls made for the event in hand *)
Call(op, thread, id, content, ok, final) ==
    [op |-> op, thread |-> thread, id |-> id, content |-> content, ok |-> ok,
     final |-> final]

Typing(thread) == Call("typing", thread, "", <<>>, TRUE, FALSE)
JudgeCall == Call("judge", EmptyId, "", <<>>, TRUE, FALSE)
LLMCall(kind) == Call(kind, EmptyId, "", <<>>, TRUE, FALSE)
PostCall(thread, content, ok) == Call("post", thread, "", content, ok, FALSE)
UpdateCall(id, content, ok, final) == Call("update", EmptyId, id, content, ok, final)
LookupCall(thread, id) == Call("lookup", thread, id, <<>>, id # "none", FALSE)
\* a.llm.Prompt(prompt) of the single-shot reply, and whether it returned a text
PromptCall(ok) == Call("prompt", EmptyId, "", <<>>, ok, FALSE)

\* ids a streaming session may take for the placeholder: its own post, or another
\* post of the thread
OwnPost == "own"
OtherPost == "other"

NoPlaceholder == [posted |-> FALSE, content |-> <<>>]
IdleProducer == [pc |-> "none", response |-> <<>>, i |-> 0]

----------------------------------------------------------------------------
(* respondWithStream and respondWithFallback: thread creation and continuation *)
\* (mutant) the thread is created without asking the platform for the post
canCreateThread_Always(postID) == TRUE

\* canCreateThread(postID)
canCreateThread(postID) == postID \in reachable

\* ThreadId of the outgoing message
replyThread(m) ==
    IF m.ThreadId # EmptyId THEN m.ThreadId
    ELSE IF isMentioned(m) /\ canCreateThread(m.PostId) THEN m.PostId
    ELSE EmptyId

\* (mutant) the id of the triggering post is tracked with the thread
threadsAfterReply_WithPost(m, at) ==
    IF replyThread(m) # EmptyId THEN at \cup {replyThread(m), m.PostId} ELSE at

\* activeThreads after the insertion made before the post
threadsAfterReply(m, at) ==
    IF replyThread(m) # EmptyId THEN at \cup {replyThread(m)} ELSE at

----------------------------------------------------------------------------
(* Thread context builder: BotAgent.getThreadContext *)
botDisplayName == <<"Agent Bot">>

\* GetUser(id).Username
Username(id) == <<"@user-">> \o id

Swap(posts, i, j) == [posts EXCEPT ![i] = posts[j], ![j] = posts[i]]

\* (mutant) the comparison of the sort turned around
RECURSIVE sortInner_Descending(_, _, _)
sortInner_Descending(posts, i, j) ==
    IF j > Len(posts) THEN posts
    ELSE sortInner_Descending(IF posts[i].Timestamp < posts[j].Timestamp
                              THEN Swap(posts, i, j) ELSE posts, i, j + 1)

\* the inner loop of the sort: for j := i + 1; j < len(posts); j++
RECURSIVE sortInner(_, _, _)
sortInner(posts, i, j) ==
    IF j > Len(posts) THEN posts
    ELSE sortInner(IF posts[i].Timestamp > posts[j].Timestamp
                   THEN Swap(posts, i, j) ELSE posts, i, j + 1)

\* the outer loop of the sort: for i := 0; i < len(posts); i++
RECURSIVE sortOuter(_, _)
sortOuter(posts, i) ==
    IF i > Len(posts) THEN posts
    ELSE sortOuter(sortInner(posts, i, i + 1), i + 1)

sortByTimestamp(posts) == sortOuter(posts, 1)

\* the speaker label of a replayed post; unknown: the ids GetUser fails for
speakerOf(p, unknown) ==
    IF p.UserID \in unknown THEN <<"Unknown User">>
    ELSE IF p.UserID = botUserID THEN botDisplayName
    ELSE Username(p.UserID)

\* the posts the formatting loop writes, in order
replayed(posts, m) ==
    SelectSeq(sortByTimestamp(posts), LAMBDA p : p.ID # m.PostId)

\* the speaker labels the formatting loop computes, in order
speakers(posts, unknown) == [i \in 1..Len(posts) |-> speakerOf(posts[i], unknown)]

\* fmt.Sprintf("%s: %s\n", speaker, p.Content) for each replayed post
RECURSIVE formatPosts(_, _)
formatPosts(posts, unknown) ==
    IF posts = <<>> THEN <<>>
    ELSE speakerOf(Head(posts), unknown) \o <<": ">> \o Head(posts).Content \o <<"\n">>
         \o formatPosts(Tail(posts), unknown)

\* the line of the current message
currentLine(m, unknown) ==
    IF m.UserId # <<>>
    THEN <<"\n">> \o (IF m.UserId \in unknown THEN <<"User">> ELSE Username(m.UserId))
         \o <<": ">> \o m.Message
    ELSE <<"\n">> \o <<"User">> \o <<": ">> \o m.Message

ContextHeader == <<"Previous conversation context:\n\n">>

\* (mutant) the fallback builds a transcript of the current message alone
getThreadContext_FallbackTranscript(m, fetchErr, posts, unknown) ==
    IF fetchErr
    THEN [text |-> ContextHeader \o currentLine(m, unknown), err |-> FALSE]
    ELSE [text |-> ContextHeader \o formatPosts(replayed(posts, m), unknown)
                   \o currentLine(m, unknown),
          err |-> FALSE]

\* getThreadContext(message): fetchErr and posts are what
\* GetThreadMessages(rootId) returns
getThreadContext(m, fetchErr, posts, unknown) ==
    IF fetchErr
    THEN [text |-> m.Message, err |-> FALSE]
    ELSE [text |-> ContextHeader \o formatPosts(replayed(posts, m), unknown)
                   \o currentLine(m, unknown),
          err |-> FALSE]

\* respondToMessage: the prompt handed to respondWithStream
promptOf(m, context) == IF context.err THEN m.Message ELSE context.text

----------------------------------------------------------------------------
(* Connection handle and Prompt frame of a bot that is up and not in a call *)
NilClient == 0

\* after Bot.start: the first connection is open and its receive loop is at
\* its select
Connected ==
    /\ proc = "running"
    /\ wsClient = 1
    /\ closed = {}
    /\ listeners = {[id |-> 1, pc |-> "select", chan |-> 1]}
    /\ failed = 0
    /\ conns = 1

\* no call of Prompt is in progress
IdleLLM == [pc |-> "idle", messages |-> <<>>, finalResult |-> <<>>, rounds |-> 0,
            result |-> <<>>, err |-> FALSE]

----------------------------------------------------------------------------
Init ==
    /\ activeThreads = {}
    /\ lastCleanup = 0
    /\ now = 0
    /\ reachable = Ids
    /\ pc = "idle"
    /\ event = NoEvent
    /\ handed = FALSE
    /\ respond = FALSE
    /\ out = <<>>
    /\ chunkChan = <<>>
    /\ chanClosed = FALSE
    /\ prod = IdleProducer
    /\ ctxDone = FALSE
    /\ responseBuffer = <<>>
    /\ messageID = OwnPost
    /\ ticks = 0
    /\ placeholder = NoPlaceholder
    /\ sweep = NoSweep
    /\ ctxIn = <<>>
    /\ ctxOut = <<>>
    /\ decIn = <<>>
    /\ decOut = <<>>
    /\ Connected
    /\ llm = IdleLLM

\* The state of a handler that has not opened a streaming session
NoSession ==
    /\ chunkChan' = <<>>
    /\ chanClosed' = FALSE
    /\ prod' = IdleProducer
    /\ ctxDone' = FALSE
    /\ responseBuffer' = <<>>
    /\ messageID' = OwnPost
    /\ ticks' = 0

\* The handler returns: the deferred cancel() runs and the producer goroutine,
\* which nobody reads any more, is left out of the state
Return ==
    /\ pc' = "done"
    /\ ctxDone' = TRUE
    /\ chunkChan' = <<>>
    /\ chanClosed' = FALSE
    /\ prod' = IdleProducer
    /\ responseBuffer' = <<>>
    /\ ticks' = 0

\* cleanupStaleThreads, called first by MessagePosted; S is the set of ids the
\* range loop visits
cleanupStaleThreads(S) ==
    IF sweepDue
    THEN /\ lastCleanup' = now
         /\ sweep' = [run |-> IF sweep.run = 0 THEN 1 ELSE 2,
                      probed |-> S,
                      first |-> IF sweep.run = 0 THEN Cardinality(activeThreads)
                                ELSE sweep.first]
    ELSE UNCHANGED <<lastCleanup, sweep>>

\* activeThreads when cleanupStaleThreads has returned
threadsAfterCleanup(S) ==
    IF sweepDue THEN staleRemoved(activeThreads, S) ELSE activeThreads

\* What GetThreadMessages(initialMsg.ThreadId) gives respondWithStream: an error
\* or no message ("none"), or a list whose last message is the placeholder or
\* another post of the thread
LookupOutcomes(thread) ==
    IF thread = EmptyId THEN {"none"} ELSE {"none", OwnPost, OtherPost}

\* (mutant) the fallback pushes the response as an update of the placeholder
respondWithFallback_Update(m, at, log, resp, postOk) ==
    LET response == IF resp = <<>> THEN Apology ELSE resp IN
    /\ activeThreads' = threadsAfterReply(m, at)
    /\ out' = log \o <<PromptCall(resp # <<>>), UpdateCall(OwnPost, response, postOk, TRUE)>>
    /\ pc' = "done"
    /\ ctxDone' = TRUE
    /\ chunkChan' = <<>>
    /\ chanClosed' = FALSE
    /\ prod' = IdleProducer
    /\ responseBuffer' = <<>>
    /\ ticks' = 0
    /\ messageID' = OwnPost

\* (mutant) a failed LLM request ends the reply without a post
respondWithFallback_ErrorSilent(m, at, log, resp, postOk) ==
    LET response == IF resp = <<>> THEN Apology ELSE resp IN
    /\ activeThreads' = threadsAfterReply(m, at)
    /\ out' = log \o <<PromptCall(resp # <<>>)>>
                  \o (IF resp = <<>> THEN <<>>
                      ELSE <<PostCall(replyThread(m), response, postOk)>>)
    /\ pc' = "done"
    /\ ctxDone' = TRUE
    /\ chunkChan' = <<>>
    /\ chanClosed' = FALSE
    /\ prod' = IdleProducer
    /\ responseBuffer' = <<>>
    /\ ticks' = 0
    /\ messageID' = OwnPost

\* respondWithFallback(message, prompt), called with the calls `log` already made
\* and the map `at`; resp is what a.llm.Prompt returns, <<>> for an error
respondWithFallback(m, at, log, resp, postOk) ==
    LET response == IF resp = <<>> THEN Apology ELSE resp IN
    /\ activeThreads' = threadsAfterReply(m, at)
    /\ out' = log \o <<PromptCall(resp # <<>>), PostCall(replyThread(m), response, postOk)>>
    /\ Return
    /\ messageID' = OwnPost

\* respondToMessage(message) and respondWithStream(message, prompt) up to the
\* call of processStream
respondToMessage(e, at, log, R) ==
    \E postOk \in BOOLEAN :
        LET m == PostedMessage(e)
            posted == log \o <<Typing(m.ThreadId), LLMCall("stream"),
                               PostCall(replyThread(m), Thinking, postOk)>>
        IN
        IF ~postOk
        THEN /\ activeThreads' = threadsAfterReply(m, at)
             /\ out' = posted
             /\ Return
             /\ messageID' = OwnPost
             /\ placeholder' = NoPlaceholder
             /\ event' = e
        ELSE /\ placeholder' = [posted |-> TRUE, content |-> Thinking]
             /\ \E res \in LookupOutcomes(replyThread(m)) :
                 IF res = "none"
                 THEN /\ \E resp \in R \cup {<<>>}, ok \in BOOLEAN :
                           respondWithFallback(m, threadsAfterReply(m, at),
                                               Append(posted, LookupCall(replyThread(m), res)),
                                               resp, ok)
                      /\ event' = e
                 ELSE /\ activeThreads' = threadsAfterReply(m, at)
                      /\ out' = Append(posted, LookupCall(replyThread(m), res))
                      /\ messageID' = res
                      /\ pc' = "stream"
                      /\ event' = NoEvent
                      /\ chunkChan' = <<>>
                      /\ chanClosed' = FALSE
                      /\ prod' = [IdleProducer EXCEPT !.pc = "prompt"]
                      /\ ctxDone' = FALSE
                      /\ responseBuffer' = <<>>
                      /\ ticks' = 0

\* startEventListener takes one event from the event channel and runs
\* handleWebSocketEvent -> MessagePosted, until the handler returns or
\* processStream starts to wait on its select
Receive(E, R) ==
    /\ pc = "idle"
    /\ \E e \in E :
        /\ handed' = RouterDelivers(e)
        /\ IF ~RouterDelivers(e)
           THEN /\ respond' = FALSE
                /\ out' = <<>>
                /\ pc' = "done"
                /\ event' = e
                /\ NoSession
                /\ UNCHANGED <<activeThreads, lastCleanup, sweep, placeholder>>
           ELSE \E S \in Samples(activeThreads), judge \in JudgeOutcomes :
                LET m == PostedMessage(e)
                    at == threadsAfterCleanup(S)
                    r == shouldRespond(m, at, judge)
                    log == IF callsJudge(m, at) THEN <<JudgeCall>> ELSE <<>>
                IN  /\ cleanupStaleThreads(S)
                    /\ respond' = r
                    /\ IF ~r
                       THEN /\ activeThreads' = at
                            /\ out' = log
                            /\ pc' = "done"
                            /\ event' = e
                            /\ NoSession
                            /\ UNCHANGED placeholder
                       ELSE respondToMessage(e, at, log, R)
    /\ UNCHANGED <<now, reachable, callVars, connVars, llm>>

\* startEventListener is back at its select: the frame of the handler is gone
LoopBack ==
    /\ pc = "done"
    /\ pc' = "idle"
    /\ event' = NoEvent
    /\ handed' = FALSE
    /\ respond' = FALSE
    /\ out' = <<>>
    /\ placeholder' = NoPlaceholder
    /\ NoSession
    /\ UNCHANGED <<activeThreads, lastCleanup, now, reachable, sweep, callVars, connVars, llm>>

----------------------------------------------------------------------------
(* AnthropicBackend.PromptStream: the producer goroutine *)
Chunk(kind, content) == [kind |-> kind, content |-> content]

producerFrame == <<activeThreads, lastCleanup, now, reachable, pc, event, handed, respond,
                   out, ctxDone, responseBuffer, messageID, ticks, placeholder, sweep,
                   callVars, connVars, llm>>

\* a.Prompt(ctx, text) returns: a text, or an error (<<>>)
ProducerPrompt(R) ==
    /\ prod.pc = "prompt"
    /\ \E r \in R \cup {<<>>} :
        prod' = IF r = <<>> THEN [prod EXCEPT !.pc = "error"]
                ELSE [pc |-> "chunks", response |-> r, i |-> 0]
    /\ UNCHANGED <<chunkChan, chanClosed>>
    /\ UNCHANGED producerFrame

\* the select that sends the error chunk, then the deferred close
ProducerError ==
    /\ prod.pc = "error"
    /\ \/ /\ Len(chunkChan) < chanCap
          /\ chunkChan' = Append(chunkChan, Chunk("error", <<>>))
       \/ /\ ctxDone
          /\ UNCHANGED chunkChan
    /\ chanClosed' = TRUE
    /\ prod' = [prod EXCEPT !.pc = "exited"]
    /\ UNCHANGED producerFrame

\* one round of the chunking loop
ProducerChunk ==
    /\ prod.pc = "chunks"
    /\ prod.i < Len(prod.response)
    /\ \/ /\ Len(chunkChan) < chanCap
          /\ chunkChan' = Append(chunkChan,
                Chunk("content", SubSeq(prod.response, prod.i + 1,
                                        Min(prod.i + chunkSize, Len(prod.response)))))
          /\ prod' = [prod EXCEPT !.i = prod.i + chunkSize]
          /\ UNCHANGED chanClosed
       \/ /\ ctxDone
          /\ chanClosed' = TRUE
          /\ prod' = [prod EXCEPT !.pc = "exited"]
          /\ UNCHANGED chunkChan
    /\ UNCHANGED producerFrame

\* the select that sends the completion signal, then the deferred close
ProducerDone ==
    /\ prod.pc = "chunks"
    /\ prod.i >= Len(prod.response)
    /\ \/ /\ Len(chunkChan) < chanCap
          /\ chunkChan' = Append(chunkChan, Chunk("done", <<>>))
       \/ /\ ctxDone
          /\ UNCHANGED chunkChan
    /\ chanClosed' = TRUE
    /\ prod' = [prod EXCEPT !.pc = "exited"]
    /\ UNCHANGED producerFrame

\* the deadline of context.WithTimeout expires during the session
CtxExpire ==
    /\ pc = "stream"
    /\ ~ctxDone
    /\ ctxDone' = TRUE
    /\ UNCHANGED <<activeThreads, lastCleanup, now, reachable, pc, event, handed, respond,
                   out, chunkChan, chanClosed, prod, responseBuffer, messageID, ticks,
                   placeholder, sweep, callVars, connVars, llm>>

----------------------------------------------------------------------------
(* BotAgent.processStream *)
consumerFrame == <<activeThreads, lastCleanup, now, reachable, event, handed, respond,
                   messageID, sweep, callVars, connVars, llm>>

\* UpdateMessage(messageID, content) and its effect on the placeholder
UpdateMessage(content, ok, final) ==
    /\ out' = Append(out, UpdateCall(messageID, content, ok, final))
    /\ placeholder' = IF ok /\ messageID = OwnPost
                      THEN [placeholder EXCEPT !.content = content]
                      ELSE placeholder

\* finalizeStreamResponse(messageID, finalContent), then processStream returns
finalizeStreamResponse(finalContent) ==
    \E ok \in BOOLEAN :
        /\ UpdateMessage(IF finalContent = <<>> THEN NoResponse ELSE finalContent, ok, TRUE)
        /\ Return

\* (mutant) the buffer keeps the last chunk only
appendDelta_Replace(buffer, content) == content

\* responseBuffer.WriteString(chunk.Content)
appendDelta(buffer, content) == buffer \o content

\* (mutant) the error branch flushes the buffer as it is
errorContent_Plain(buffer) == buffer

\* responseBuffer.String()+"\n\n_Error: Failed to complete response_"
errorContent(buffer) == buffer \o ErrorNote

\* case chunk, ok := <-chunkChan with a chunk in the channel
ConsumeChunk ==
    /\ pc = "stream"
    /\ chunkChan # <<>>
    /\ LET chunk == Head(chunkChan) IN
        IF chunk.kind = "error"
        THEN finalizeStreamResponse(errorContent(responseBuffer))
        ELSE IF chunk.kind = "done"
        THEN finalizeStreamResponse(responseBuffer)
        ELSE /\ responseBuffer' = appendDelta(responseBuffer, chunk.content)
             /\ chunkChan' = Tail(chunkChan)
             /\ UNCHANGED <<pc, out, chanClosed, prod, ctxDone, ticks, placeholder>>
    /\ UNCHANGED consumerFrame

\* case chunk, ok := <-chunkChan with the channel closed and drained
ConsumeClosed ==
    /\ pc = "stream"
    /\ chunkChan = <<>>
    /\ chanClosed
    /\ finalizeStreamResponse(responseBuffer)
    /\ UNCHANGED consumerFrame

\* case <-ticker.C; elapsed is time.Since(lastUpdate) >= updateInterval
Tick(maxTicks) ==
    /\ pc = "stream"
    /\ ticks < maxTicks
    /\ ticks' = ticks + 1
    /\ \E elapsed \in BOOLEAN, ok \in BOOLEAN :
        IF elapsed /\ Len(responseBuffer) > 0
        THEN UpdateMessage(responseBuffer, ok, FALSE)
        ELSE UNCHANGED <<out, placeholder>>
    /\ UNCHANGED <<pc, chunkChan, chanClosed, prod, ctxDone, responseBuffer>>
    /\ UNCHANGED consumerFrame

\* case <-ctx.Done()
ConsumeCancel ==
    /\ pc = "stream"
    /\ ctxDone
    /\ finalizeStreamResponse(responseBuffer \o CancelNote)
    /\ UNCHANGED consumerFrame

----------------------------------------------------------------------------
(* Environment *)
\* the clock advances; it is read only by cleanupStaleThreads, at the start of a
\* handler, so it is advanced between two handlers
Advance(maxTime) ==
    /\ pc = "idle"
    /\ now + TimeStep <= maxTime
    /\ now' = now + TimeStep
    /\ UNCHANGED <<activeThreads, lastCleanup, reachable, pc, event, handed, respond, out,
                   streamVars, sweep, callVars, connVars, llm>>

\* a post is deleted or restored on the platform, between two handlers
PlatformChange(I) ==
    /\ pc = "idle"
    /\ \E t \in I :
        reachable' = IF t \in reachable THEN reachable \ {t} ELSE reachable \cup {t}
    /\ sweep' = NoSweep
    /\ UNCHANGED <<activeThreads, lastCleanup, now, pc, event, handed, respond, out,
                   streamVars, callVars, connVars, llm>>

----------------------------------------------------------------------------
(* The agent: every event, short LLM responses *)
Next ==
    \/ Receive(Events, Responses(MaxRespLen))
    \/ ProducerPrompt(Responses(MaxRespLen))
    \/ ProducerError
    \/ ProducerChunk
    \/ ProducerDone
    \/ CtxExpire
    \/ ConsumeChunk
    \/ ConsumeClosed
    \/ Tick(MaxTicks)
    \/ ConsumeCancel
    \/ LoopBack
    \/ Advance(CleanupInterval)
    \/ PlatformChange(Ids)

Spec == Init /\ [][Next]_vars

----------------------------------------------------------------------------
(* The streaming session: two events that mention the agent, longer responses *)
StreamEvents ==
    [type : {"posted"}, parsed : {TRUE},
     post : {[Id |-> 1, UserId |-> otherUserID, RootId |-> r,
              Message |-> <<"@">> \o botUsername] : r \in {EmptyId, MaxId}},
     channel_type : {"O"}]

StreamNext ==
    \/ Receive(StreamEvents, Responses(MaxStreamLen))
    \/ ProducerPrompt(Responses(MaxStreamLen))
    \/ ProducerError
    \/ ProducerChunk
    \/ ProducerDone
    \/ CtxExpire
    \/ ConsumeChunk
    \/ ConsumeClosed
    \/ Tick(MaxStreamTicks)
    \/ ConsumeCancel
    \/ LoopBack

StreamSpec == Init /\ [][StreamNext]_vars

----------------------------------------------------------------------------
(* The sweeper: up to MaxSweepId tracked threads, events that get no reply *)
SweepIds == 1..MaxSweepId

SweepEvents ==
    [type : {"posted"}, parsed : {TRUE},
     post : {[Id |-> 1, UserId |-> otherUserID, RootId |-> EmptyId, Message |-> <<>>]},
     channel_type : {"O"}]

SweepInit ==
    /\ activeThreads \in {1..k : k \in 0..MaxSweepId}
    /\ lastCleanup = 0
    /\ now = 0
    /\ reachable = SweepIds
    /\ pc = "idle"
    /\ event = NoEvent
    /\ handed = FALSE
    /\ respond = FALSE
    /\ out = <<>>
    /\ chunkChan = <<>>
    /\ chanClosed = FALSE
    /\ prod = IdleProducer
    /\ ctxDone = FALSE
    /\ responseBuffer = <<>>
    /\ messageID = OwnPost
    /\ ticks = 0
    /\ placeholder = NoPlaceholder
    /\ sweep = NoSweep
    /\ ctxIn = <<>>
    /\ ctxOut = <<>>
    /\ decIn = <<>>
    /\ decOut = <<>>
    /\ Connected
    /\ llm = IdleLLM

SweepNext ==
    \/ Receive(SweepEvents, {})
    \/ LoopBack
    \/ Advance(2 * CleanupInterval)
    \/ PlatformChange(SweepIds)

SweepSpec == SweepInit /\ [][SweepNext]_vars

----------------------------------------------------------------------------
(* Properties of the decision engine and the event router (Spec) *)

\* the message handed to the agent, while the handler's frame holds it
msg == PostedMessage(event)
inHand == event.type = "posted" /\ handed

\* the text holds "@" followed by the handle, or the raw user id
HasMentionToken(t) ==
    \E i \in 1..(Len(t) - 1) : t[i] = "@" /\ <<t[i + 1]>> = botUsername
HasRawId(t) == \E i \in 1..Len(t) : <<t[i]>> = botUserID

\* a reply, a placeholder, an update or a typing indicator was sent
SentSomething(log) ==
    \E i \in 1..Len(log) : log[i].op \in {"post", "update", "typing"}

\* C1: every handed message with the direct-message flag set gets respond = true,
\* whatever its text, its thread-root id and the tracked threads are.
C1_DirectMessageResponds ==
    (inHand /\ msg.IsDM) => respond

C1_Witness ==
    /\ inHand /\ msg.IsDM /\ respond
    /\ ~HasMentionToken(msg.Message) /\ ~HasRawId(msg.Message)
    /\ msg.ThreadId = EmptyId
    /\ activeThreads # {}

\* C2: every handed message whose text holds the mention token or the raw user
\* id anywhere gets respond = true, whatever the DM flag and the tracked threads.
C2_MentionResponds ==
    (inHand /\ (HasMentionToken(msg.Message) \/ HasRawId(msg.Message))) => respond

C2_Witness ==
    /\ inHand /\ respond /\ ~msg.IsDM
    /\ msg.Message = <<"@">> \o botUsername
    /\ msg.ThreadId = EmptyId
    /\ activeThreads \ {msg.PostId} # {}

C2_WitnessRawId ==
    /\ inHand /\ respond /\ ~msg.IsDM
    /\ msg.Message = <<"@">> \o botUserID

\* C3: a handed message with no mention, no DM flag and a thread-root id that is
\* empty or not tracked gets respond = false, and nothing is sent for it: no
\* reply, no placeholder, no update, no typing indicator.
C3_OtherwiseSilent ==
    [][(pc = "idle" /\ event'.type = "posted" /\ handed'
        /\ ~HasMentionToken(event'.post.Message) /\ ~HasRawId(event'.post.Message)
        /\ event'.channel_type # "D"
        /\ (event'.post.RootId = EmptyId \/ event'.post.RootId \notin activeThreads))
       => (~respond' /\ ~SentSomething(out') /\ pc' = "done"
           /\ ~placeholder'.posted /\ activeThreads' \subseteq activeThreads)]_vars

C3_Witness ==
    /\ inHand /\ pc = "done" /\ ~respond /\ out = <<>>
    /\ ~HasMentionToken(msg.Message) /\ ~HasRawId(msg.Message) /\ ~msg.IsDM
    /\ msg.ThreadId # EmptyId /\ msg.ThreadId \notin activeThreads
    /\ activeThreads # {}

\* C4: a posted event whose author is the agent itself is dropped by the router:
\* it is not handed to the agent, no decision is made and nothing is sent for it,
\* also when its text mentions the agent or its thread is tracked.
C4_NoSelfReply ==
    (event.type = "posted" /\ event.parsed /\ event.post.UserId = botUserID)
        => (~handed /\ ~respond /\ out = <<>> /\ pc = "done" /\ ~placeholder.posted)

C4_Witness ==
    /\ event.type = "posted" /\ event.post.UserId = botUserID
    /\ HasMentionToken(event.post.Message)
    /\ event.post.RootId \in activeThreads
    /\ ~handed /\ out = <<>>

\* C5 (as claimed): a thread id enters the tracked set only in a step in which a
\* post of the agent into that thread succeeded.
C5_InsertedOnlyAfterPost ==
    [][\A t \in activeThreads' \ activeThreads :
          \E i \in 1..Len(out') :
              out'[i].op = "post" /\ out'[i].thread = t /\ out'[i].ok]_vars

----------------------------------------------------------------------------
(* Properties of the streaming publisher (StreamSpec) *)
FinalFlushes(log) == {i \in 1..Len(log) : log[i].op = "update" /\ log[i].final}

\* C6 (as claimed): when a session that posted its placeholder has ended, exactly
\* one terminal flush was issued, no update was issued after it, and the
\* placeholder no longer shows its initial content.
C6_OneTerminalFlush ==
    (pc = "done" /\ placeholder.posted)
        => /\ Cardinality(FinalFlushes(out)) = 1
           /\ out[Len(out)].op = "update" /\ out[Len(out)].final
           /\ placeholder.content # Thinking

----------------------------------------------------------------------------
(* Properties of the sweeper (SweepSpec) *)
ActingSweep == lastCleanup' # lastCleanup

\* C7: an acting sweep probes at most SampleBound of the tracked ids and removes
\* exactly the probed ids whose probe failed; unprobed ids and probed reachable
\* ids stay.
C7_SweepFrame ==
    [][ActingSweep =>
        /\ sweep'.probed \subseteq activeThreads
        /\ Cardinality(sweep'.probed) <= SampleBound
        /\ activeThreads' = activeThreads \ {t \in sweep'.probed : t \notin reachable}]_vars

\* 6 tracked, 5 probed, 2 of the probed removed, the unprobed one is unreachable
\* and stays
C7_Witness ==
    /\ sweep.run = 1 /\ sweep.first = SampleBound + 1
    /\ Cardinality(sweep.probed) = SampleBound
    /\ Cardinality(activeThreads) = sweep.first - 2
    /\ \E t \in activeThreads \ sweep.probed : t \notin reachable

\* C8 (as claimed): an acting sweep that follows an acting sweep, with no change
\* of reachability and no insertion in between, removes nothing.
C8_SecondSweepRemovesNothing ==
    [][(ActingSweep /\ sweep.run >= 1) => activeThreads' = activeThreads]_vars

\* C8 (amended): the same, when at most SampleBound ids were tracked at the
\* first of the two sweeps.
C8_SecondSweepRemovesNothingSmall ==
    [][(ActingSweep /\ sweep.run >= 1 /\ sweep.first <= SampleBound)
        => activeThreads' = activeThreads]_vars

C8_Witness ==
    /\ sweep.run = 2 /\ sweep.first = SampleBound
    /\ Cardinality(activeThreads) < sweep.first
    /\ activeThreads # {}

----------------------------------------------------------------------------
(* The context builder on its own: one call of respondToMessage's
   getThreadContext for each fetched thread *)
MaxPosts == 3         \* posts in a fetched thread; timestamps are 1..MaxPosts

\* the post at fetch position i has id i and the content Letters[i]
ThreadPost(i, user, ts) ==
    [ID |-> i, UserID |-> user, Content |-> <<Letters[i]>>, Timestamp |-> ts]

FetchedThreads ==
    UNION {{[i \in 1..n |-> ThreadPost(i, us[i], ts[i])] :
              us \in [1..n -> UserIds], ts \in [1..n -> 1..MaxPosts]} : n \in 0..MaxPosts}

ContextMessages ==
    [PostId : 1..(MaxPosts + 1), UserId : {otherUserID, <<>>}, ThreadId : {EmptyId, 1},
     Message : {<<"h", "i">>}, IsDM : {FALSE}]

ContextInputs ==
    [message : ContextMessages, fetchErr : BOOLEAN, posts : FetchedThreads,
     unknown : SUBSET UserIds]

ContextInit ==
    /\ activeThreads = {}
    /\ lastCleanup = 0
    /\ now = 0
    /\ reachable = Ids
    /\ pc = "idle"
    /\ event = NoEvent
    /\ handed = FALSE
    /\ respond = FALSE
    /\ out = <<>>
    /\ chunkChan = <<>>
    /\ chanClosed = FALSE
    /\ prod = IdleProducer
    /\ ctxDone = FALSE
    /\ responseBuffer = <<>>
    /\ messageID = OwnPost
    /\ ticks = 0
    /\ placeholder = NoPlaceholder
    /\ sweep = NoSweep
    /\ ctxIn \in ContextInputs
    /\ ctxOut = <<>>
    /\ decIn = <<>>
    /\ decOut = <<>>
    /\ Connected
    /\ llm = IdleLLM

\* respondToMessage calls getThreadContext and keeps the replayed posts, the
\* returned context and the prompt
BuildContext ==
    /\ ctxOut = <<>>
    /\ LET context == getThreadContext(ctxIn.message, ctxIn.fetchErr, ctxIn.posts,
                                       ctxIn.unknown)
       IN ctxOut' = <<[fetched |-> ~ctxIn.fetchErr,
                       replay |-> IF ctxIn.fetchErr THEN <<>>
                                  ELSE replayed(ctxIn.posts, ctxIn.message),
                       speakers |-> IF ctxIn.fetchErr THEN <<>>
                                    ELSE speakers(replayed(ctxIn.posts, ctxIn.message),
                                                  ctxIn.unknown),
                       context |-> context,
                       prompt |-> promptOf(ctxIn.message, context)]>>
    /\ UNCHANGED <<activeThreads, lastCleanup, now, reachable, pc, event, handed, respond,
                   out, streamVars, sweep, ctxIn, decIn, decOut,
                   connVars, llm>>

ContextSpec == ContextInit /\ [][BuildContext]_vars

\* the fetched posts have pairwise distinct timestamps
DistinctTimestamps(posts) ==
    \A i, j \in 1..Len(posts) : i # j => posts[i].Timestamp # posts[j].Timestamp

\* s ends with t
EndsWith(s, t) ==
    Len(t) <= Len(s) /\ SubSeq(s, Len(s) - Len(t) + 1, Len(s)) = t

\* the number of places at which t occurs in s
Occurrences(s, t) ==
    Cardinality({i \in 0..(Len(s) - Len(t)) : SubSeq(s, i + 1, i + Len(t)) = t})

\* C9: for fetched posts with pairwise distinct timestamps, the replayed posts
\* are exactly the fetched posts other than the trigger, in strictly ascending
\* timestamp order, and the transcript holds the triggering message once, as
\* its last entry.
C9_TranscriptOrder ==
    (ctxOut # <<>> /\ ~ctxIn.fetchErr /\ DistinctTimestamps(ctxIn.posts))
        => LET r == ctxOut[1].replay
               text == ctxOut[1].context.text
           IN /\ \A i \in 1..(Len(r) - 1) : r[i].Timestamp < r[i + 1].Timestamp
              /\ \A i \in 1..Len(r) : r[i].ID # ctxIn.message.PostId
              /\ {r[i] : i \in 1..Len(r)}
                    = {ctxIn.posts[i] : i \in 1..Len(ctxIn.posts)}
                        \ {p \in {ctxIn.posts[i] : i \in 1..Len(ctxIn.posts)} :
                              p.ID = ctxIn.message.PostId}
              /\ Len(r) = Cardinality({r[i] : i \in 1..Len(r)})
              /\ EndsWith(text, <<": ">> \o ctxIn.message.Message)
              /\ Occurrences(text, ctxIn.message.Message) = 1

\* three posts fetched out of timestamp order, the trigger among them
C9_Witness ==
    /\ ctxOut # <<>> /\ ~ctxIn.fetchErr /\ DistinctTimestamps(ctxIn.posts)
    /\ Len(ctxIn.posts) = MaxPosts
    /\ ctxIn.posts[1].Timestamp > ctxIn.posts[MaxPosts].Timestamp
    /\ ctxIn.message.PostId = 2
    /\ Len(ctxOut[1].replay) = MaxPosts - 1

\* C10: when the fetch of the thread's posts fails, getThreadContext returns the
\* bare text of the triggering message and no error, and that text is the
\* prompt the caller goes on with.
C10_FetchFailureFallback ==
    (ctxOut # <<>> /\ ctxIn.fetchErr)
        => /\ ctxOut[1].context.text = ctxIn.message.Message
           /\ ~ctxOut[1].context.err
           /\ ctxOut[1].prompt = ctxIn.message.Message

C10_Witness ==
    /\ ctxOut # <<>> /\ ctxIn.fetchErr
    /\ ctxIn.message.UserId # <<>>
    /\ ctxOut[1].prompt = <<"h", "i">>

----------------------------------------------------------------------------
(* Further properties of the context builder (ContextSpec) *)
\* the position of post p in the sequence r
PosIn(r, p) == CHOOSE k \in 1..Len(r) : r[k] = p

\* C11 (as claimed): two fetched posts with equal timestamps, neither of them the
\* trigger, are replayed in the relative order of the fetch.
C11_StableSort ==
    (ctxOut # <<>> /\ ~ctxIn.fetchErr)
        => \A i, j \in 1..Len(ctxIn.posts) :
              (/\ i < j
               /\ ctxIn.posts[i].Timestamp = ctxIn.posts[j].Timestamp
               /\ ctxIn.posts[i].ID # ctxIn.message.PostId
               /\ ctxIn.posts[j].ID # ctxIn.message.PostId)
              => PosIn(ctxOut[1].replay, ctxIn.posts[i])
                    < PosIn(ctxOut[1].replay, ctxIn.posts[j])

\* the label the claim gives a replayed post
claimedSpeaker(p, unknown) ==
    IF p.UserID = botUserID THEN botDisplayName
    ELSE IF p.UserID \in unknown THEN <<"Unknown User">>
    ELSE Username(p.UserID)

\* C12 (as claimed): a replayed post of the agent is labeled with the display
\* name whatever the user lookup gives; any other post with the looked-up
\* username, or "Unknown User" when the lookup fails.
C12_SpeakerLabels ==
    (ctxOut # <<>> /\ ~ctxIn.fetchErr)
        => \A i \in 1..Len(ctxOut[1].replay) :
              ctxOut[1].speakers[i] = claimedSpeaker(ctxOut[1].replay[i], ctxIn.unknown)

----------------------------------------------------------------------------
(* The decision engine on its own: one call of MessagePosted's shouldRespond
   for each text and each reply of the decision LLM *)
MaxFragments == 2     \* fragments a message text is put together from

Fragments ==
    {<<"?">>,
     <<"l", "o", "l">>,
     <<"h", "a", "h", "a">>,
     <<"W", "h", "y">>,
     <<"L", "O", "L">>,
     <<"t", "h", "a", "n", "k", "s", "!">>,
     <<"o", "k">>,
     <<"s", "e", "e", " ", "y", "o", "u", " ", "a", "t", " ", "t", "e", "n">>,
     <<"c", "o", "u", "l", "d", " ", "y", "o", "u", " ", "c", "h", "e", "c", "k", " ", "t", "h", "e", " ", "d", "e", "p", "l", "o", "y", " ", "l", "o", "g">>,
     <<EAcute, EAcute, EAcute, EAcute, EAcute>>}

RECURSIVE Concat(_)
Concat(ss) == IF ss = <<>> THEN <<>> ELSE Head(ss) \o Concat(Tail(ss))

DecideTexts == {Concat(fs) : fs \in BoundedSeq(Fragments, MaxFragments)}

DecideMessages ==
    [PostId : {2}, UserId : {otherUserID}, ThreadId : {1}, Message : DecideTexts,
     IsDM : {FALSE}]

JudgeReplies ==
    {JudgeError, JudgeReply(<<"Y", "E", "S">>), JudgeReply(<<"y", "e", "s">>), JudgeReply(<<" ", "Y", "e", "s", ".">>),
     JudgeReply(<<"N", "O">>), JudgeReply(<<"M", "a", "y", "b", "e">>)}

DecideInit ==
    /\ activeThreads \in {{}, {1}}
    /\ lastCleanup = 0
    /\ now = 0
    /\ reachable = Ids
    /\ pc = "idle"
    /\ event = NoEvent
    /\ handed = FALSE
    /\ respond = FALSE
    /\ out = <<>>
    /\ chunkChan = <<>>
    /\ chanClosed = FALSE
    /\ prod = IdleProducer
    /\ ctxDone = FALSE
    /\ responseBuffer = <<>>
    /\ messageID = OwnPost
    /\ ticks = 0
    /\ placeholder = NoPlaceholder
    /\ sweep = NoSweep
    /\ ctxIn = <<>>
    /\ ctxOut = <<>>
    /\ decIn \in [message : DecideMessages, judge : JudgeReplies]
    /\ decOut = <<>>
    /\ Connected
    /\ llm = IdleLLM

\* MessagePosted calls shouldRespond and keeps what it returned; the heuristic is
\* applied to the same text beside it
Decide ==
    /\ decOut = <<>>
    /\ decOut' = <<[respond |-> shouldRespond(decIn.message, activeThreads, decIn.judge),
                    judged |-> callsJudge(decIn.message, activeThreads),
                    heuristic |-> shouldRespondInThreadFallback(decIn.message)]>>
    /\ UNCHANGED <<activeThreads, lastCleanup, now, reachable, pc, event, handed, respond,
                   out, streamVars, sweep, ctxIn, ctxOut, decIn,
                   connVars, llm>>

DecideSpec == DecideInit /\ [][Decide]_vars

\* the decision was made by the thread judgment
judgedInThread == decOut # <<>> /\ decOut[1].judged

\* the reply holds "YES" in some letter case
HasYes(r) ==
    \E i \in 1..(Len(r) - 2) :
        r[i] \in {"y", "Y"} /\ r[i + 1] \in {"e", "E"} /\ r[i + 2] \in {"s", "S"}

\* the heuristic as the claims state it, on the lower-cased text, with the
\* length n of the text given
Reference(t, n) ==
    LET l == ToLower(t)
        words == {<<"h", "o", "w">>, <<"w", "h", "a", "t">>, <<"w", "h", "e", "n">>, <<"w", "h", "e", "r", "e">>,
                  <<"w", "h", "y">>, <<"w", "h", "o">>, <<"c", "a", "n", " ", "y", "o", "u">>,
                  <<"c", "o", "u", "l", "d", " ", "y", "o", "u">>,
                  <<"w", "o", "u", "l", "d", " ", "y", "o", "u">>,
                  <<"d", "o", " ", "y", "o", "u">>}
    IN \/ Contains(l, <<"?">>)
       \/ /\ ~Contains(l, <<"?">>)
          /\ \E w \in words : Contains(l, w)
       \/ /\ ~Contains(l, <<"?">>)
          /\ ~\E w \in words : Contains(l, w)
          /\ ~(n < 10 \/ Contains(l, <<"l", "o", "l">>) \/ Contains(l, <<"h", "a", "h", "a">>))

\* C13: in an active thread, a reply of the decision LLM that holds "YES" in any
\* letter case gives respond = true, whatever the heuristic gives for the text.
C13_JudgeYesResponds ==
    (judgedInThread /\ ~decIn.judge.err /\ HasYes(decIn.judge.reply))
        => decOut[1].respond

\* a lower-case "yes" for a text the heuristic would not answer
C13_Witness ==
    /\ judgedInThread /\ ~decIn.judge.err
    /\ decIn.judge.reply = <<"y", "e", "s">>
    /\ ~decOut[1].heuristic
    /\ decOut[1].respond

\* C14 (as claimed): in an active thread, a reply of the decision LLM without
\* "YES" gives the decision of the heuristic for the text.
C14_OtherReplyFallsBack ==
    (judgedInThread /\ ~decIn.judge.err /\ ~HasYes(decIn.judge.reply))
        => decOut[1].respond = decOut[1].heuristic

\* C15: in an active thread, a failed call of the decision LLM gives the decision
\* of the heuristic for the text; shouldRespond returns that decision and no error.
C15_JudgeErrorFallsBack ==
    (judgedInThread /\ decIn.judge.err)
        => /\ decOut[1].respond \in BOOLEAN
           /\ decOut[1].respond
                 = Reference(decIn.message.Message, ByteLen(decIn.message.Message))

\* the decision LLM fails for a text with a question mark: the agent responds
C15_Witness ==
    /\ judgedInThread /\ decIn.judge.err
    /\ Contains(decIn.message.Message, <<"?">>)
    /\ decOut[1].respond

\* C16 (as claimed): the heuristic equals the reference with the length counted
\* in characters.
C16_HeuristicReference ==
    decOut # <<>>
        => decOut[1].heuristic = Reference(decIn.message.Message, Len(decIn.message.Message))

\* C16 (amended): the heuristic equals the reference with the length counted in
\* bytes; "thanks!" gives false, "could you check the deploy log?" gives true,
\* and a text with "?" and "lol" gives true.
C16_HeuristicReferenceBytes ==
    decOut # <<>>
        => /\ decOut[1].heuristic
                = Reference(decIn.message.Message, ByteLen(decIn.message.Message))
           /\ decIn.message.Message = <<"t", "h", "a", "n", "k", "s", "!">> => ~decOut[1].heuristic
           /\ decIn.message.Message = <<"c", "o", "u", "l", "d", " ", "y", "o", "u", " ", "c", "h", "e", "c", "k", " ", "t", "h", "e", " ", "d", "e", "p", "l", "o", "y", " ", "l", "o", "g", "?">>
                => decOut[1].heuristic
           /\ (Contains(decIn.message.Message, <<"?">>)
                /\ Contains(decIn.message.Message, <<"l", "o", "l">>))
                => decOut[1].heuristic

\* a text with "?" and "lol" gets true
C16_Witness ==
    /\ decOut # <<>>
    /\ decIn.message.Message = <<"l", "o", "l", "?">>
    /\ decOut[1].heuristic

----------------------------------------------------------------------------
(* Further properties of the streaming publisher (StreamSpec) *)
\* the updates pushed before the terminal flush
Intermediate(log) == {i \in 1..Len(log) : log[i].op = "update" /\ ~log[i].final}

\* C17 (as claimed): an intermediate update is pushed only when the buffer has
\* grown since the last pushed update: no intermediate update repeats the
\* content of an earlier intermediate update that succeeded.
C17_TickOnlyOnGrowth ==
    \A i, j \in Intermediate(out) :
        (i < j /\ out[i].ok) => out[j].content # out[i].content

\* the text of the deltas the producer has sent
Sent == SubSeq(prod.response, 1, Min(prod.i, Len(prod.response)))

\* the text of the deltas waiting in the channel
RECURSIVE PendingText(_)
PendingText(ch) ==
    IF ch = <<>> THEN <<>>
    ELSE (IF Head(ch).kind = "content" THEN Head(ch).content ELSE <<>>)
         \o PendingText(Tail(ch))

\* the in-order concatenation of the deltas consumed so far
Consumed == SubSeq(Sent, 1, Len(Sent) - Len(PendingText(chunkChan)))

\* C18: every intermediate update carries the in-order concatenation of exactly
\* the deltas consumed before its tick, and the final update of a session that
\* ends with the completion signal, its deadline not fired, carries the
\* concatenation of all deltas.
C18_UpdatesConcatenateDeltas ==
    [][(pc = "stream" /\ Len(out') = Len(out) + 1 /\ out'[Len(out')].op = "update")
        => LET u == out'[Len(out')] IN
           /\ ~u.final => u.content = Consumed
           /\ (u.final /\ ~ctxDone /\ chunkChan # <<>> /\ Head(chunkChan).kind = "done")
                => (u.content = prod.response /\ Consumed = prod.response)]_vars

\* three deltas, one update after the second delta, then the final update with
\* all three
C18_Witness ==
    /\ pc = "done"
    /\ Cardinality(Intermediate(out)) = 1
    /\ \E i \in Intermediate(out) : out[i].content = SubSeq(Letters, 1, 2 * chunkSize)
    /\ out[Len(out)].op = "update" /\ out[Len(out)].final
    /\ out[Len(out)].content = SubSeq(Letters, 1, 2 * chunkSize + 1)

\* the lookup of the placeholder's id failed or gave no message
LookupFailed(log) == \E i \in 1..Len(log) : log[i].op = "lookup" /\ ~log[i].ok

\* C19: when the lookup of the placeholder's id fails, no update is issued for
\* the session, the stream is not consumed, and after the lookup the agent makes
\* one non-streaming LLM request and one ordinary post with its reply.
C19_DegradesToSingleShot ==
    LookupFailed(out)
        => /\ pc = "done"
           /\ \A i \in 1..Len(out) : out[i].op # "update"
           /\ Len(out) >= 3
           /\ out[Len(out) - 2].op = "lookup"
           /\ out[Len(out) - 1].op = "prompt"
           /\ out[Len(out)].op = "post" /\ out[Len(out)].content # Thinking
           /\ Cardinality({i \in 1..Len(out) : out[i].op = "post"}) = 2

C19_Witness ==
    /\ LookupFailed(out) /\ pc = "done"
    /\ placeholder.posted /\ placeholder.content = Thinking
    /\ out[Len(out)].op = "post" /\ out[Len(out)].ok
    /\ out[Len(out)].content = SubSeq(Letters, 1, 2)

\* C20 (as claimed): when the deadline has fired while the producer was sending
\* the deltas of a response, and neither the completion signal nor an error
\* delta was sent, the terminal flush is the buffer with the cancellation
\* annotation.
C20_CancelAnnotated ==
    [][(/\ pc = "stream" /\ pc' = "done"
        /\ ctxDone
        /\ prod.response # <<>>
        /\ \A k \in 1..Len(chunkChan) : chunkChan[k].kind = "content")
       => out'[Len(out')].content = responseBuffer \o CancelNote]_vars

----------------------------------------------------------------------------
(* The tool-use loop: AnthropicBackend.Prompt *)
MaxRounds == 3        \* rounds of the loop in one call of Prompt
MaxBlocks == 3        \* content blocks the model returns in one call, all rounds

FallbackPhrase ==
    <<"I received your message and processed it with Claude, but no text content was returned.">>

\* the Asana tools of the catalog, with the head of their error strings
ToolNames == {"list_asana_projects", "list_asana_project_tasks",
              "list_asana_user_tasks", "list_asana_users"}

ErrorHead(name) ==
    CASE name = "list_asana_projects" -> <<"Error listing projects: ">>
      [] name = "list_asana_project_tasks" -> <<"Error listing project tasks: ">>
      [] name = "list_asana_user_tasks" -> <<"Error listing user tasks: ">>
      [] name = "list_asana_users" -> <<"Error listing users: ">>

\* resp.Content: text blocks, tool-use blocks (input that unmarshals or not, a
\* tool call that succeeds or fails, a name outside the catalog), MCP tool-use
\* blocks and blocks of any other type
Block(kind, text, name, input, call) ==
    [kind |-> kind, text |-> text, name |-> name, input |-> input, call |-> call]

Blocks ==
    {Block("text", t, "", "", "") : t \in {<<>>, <<"a">>, <<"b">>}}
    \cup {Block("tool_use", <<>>, n, "ok", c) : n \in ToolNames, c \in {"ok", "fail"}}
    \cup {Block("tool_use", <<>>, n, "mismatch", "") : n \in ToolNames}
    \cup {Block("tool_use", <<>>, "other_tool", "ok", "")}
    \cup {Block("mcp_tool_use", <<>>, "hello", "ok", ""), Block("other", <<>>, "", "", "")}

ModelResponses(n) == BoundedSeq(Blocks, n)

\* case anthropic.BetaTextBlock: finalResult.WriteString(text), over one response
RECURSIVE textOf(_)
textOf(blocks) ==
    IF blocks = <<>> THEN <<>>
    ELSE (IF Head(blocks).kind = "text" THEN Head(blocks).text ELSE <<>>)
         \o textOf(Tail(blocks))

\* (mutant) the reply keeps the text of the last round only
collectText_LastRound(finalResult, blocks) == textOf(blocks)

\* finalResult after the blocks of one response
collectText(finalResult, blocks) == finalResult \o textOf(blocks)

\* the switch on content.Name: the value handed to json.Marshal
toolResponse(block) ==
    IF block.name \notin ToolNames THEN [type |-> "nil", value |-> <<>>]
    ELSE IF block.input = "mismatch"
    THEN [type |-> "string", value |-> <<"Invalid input: ">> \o <<"unmarshal error">>]
    ELSE IF block.call = "fail"
    THEN [type |-> "string", value |-> ErrorHead(block.name) \o <<"asana error">>]
    ELSE [type |-> "data", value |-> <<block.name>>]

\* string(b) of b, err := json.Marshal(response)
marshal(response) ==
    CASE response.type = "nil" -> <<"null">>
      [] response.type = "string" -> <<"\"">> \o response.value \o <<"\"">>
      [] response.type = "data" -> <<"[">> \o response.value \o <<"]">>

\* anthropic.NewBetaToolResultBlock(content.ID, string(b), false); the id of a
\* block is its position in the response
ToolResult(id, content) == [tool_use_id |-> id, content |-> content, is_error |-> FALSE]

\* (mutant) a tool call that fails or whose input does not unmarshal gives no
\* tool result
RECURSIVE toolResults_SkipErrors(_, _)
toolResults_SkipErrors(blocks, i) ==
    IF i > Len(blocks) THEN <<>>
    ELSE (IF blocks[i].kind = "tool_use" /\ toolResponse(blocks[i]).type # "string"
          THEN <<ToolResult(i, marshal(toolResponse(blocks[i])))>>
          ELSE <<>>)
         \o toolResults_SkipErrors(blocks, i + 1)

\* (mutant) a tool-use block whose name is outside the catalog gives no tool
\* result
RECURSIVE toolResults_KnownOnly(_, _)
toolResults_KnownOnly(blocks, i) ==
    IF i > Len(blocks) THEN <<>>
    ELSE (IF blocks[i].kind = "tool_use" /\ blocks[i].name \in ToolNames
          THEN <<ToolResult(i, marshal(toolResponse(blocks[i])))>>
          ELSE <<>>)
         \o toolResults_KnownOnly(blocks, i + 1)

\* the second loop over resp.Content, from block i on: one tool result for each
\* BetaToolUseBlock, none for any other block
RECURSIVE toolResults(_, _)
toolResults(blocks, i) ==
    IF i > Len(blocks) THEN <<>>
    ELSE (IF blocks[i].kind = "tool_use"
          THEN <<ToolResult(i, marshal(toolResponse(blocks[i])))>>
          ELSE <<>>)
         \o toolResults(blocks, i + 1)

\* (mutant) the text is returned as it is
finalReply_Raw(result) == result

\* result := finalResult.String(), and the fallback for the empty string
finalReply(result) == IF result = <<>> THEN FallbackPhrase ELSE result

\* the turns of the conversation
Turn(role, content) == [role |-> role, content |-> content]

\* content blocks the model has returned so far in this call
RECURSIVE blocksIn(_)
blocksIn(messages) ==
    IF messages = <<>> THEN 0
    ELSE (IF Head(messages).role = "assistant" THEN Len(Head(messages).content) ELSE 0)
         + blocksIn(Tail(messages))

\* Prompt(ctx, text) up to the head of its loop
PromptStart ==
    /\ llm.pc = "idle"
    /\ \E text \in Responses(MaxRespLen) :
        llm' = [IdleLLM EXCEPT !.pc = "loop",
                               !.messages = <<Turn("user", <<Block("text", text, "", "", "")>>)>>]
    /\ UNCHANGED <<activeThreads, lastCleanup, now, reachable, pc, event, handed, respond,
                   out, streamVars, sweep, callVars, connVars>>

\* one round of the loop: Messages.New, the two loops over resp.Content, and
\* either the next round or the return
PromptRound ==
    /\ llm.pc = "loop"
    /\ llm.rounds < MaxRounds
    /\ \/ llm' = [llm EXCEPT !.pc = "returned", !.rounds = @ + 1,
                               !.result = <<>>, !.err = TRUE]
       \/ \E resp \in ModelResponses(MaxBlocks - blocksIn(llm.messages)) :
            LET final == collectText(llm.finalResult, resp)
                results == toolResults(resp, 1)
                messages == Append(llm.messages, Turn("assistant", resp))
            IN  IF results = <<>>
                THEN llm' = [llm EXCEPT !.pc = "returned", !.rounds = @ + 1,
                                        !.messages = messages,
                                        !.finalResult = final,
                                        !.result = finalReply(final)]
                ELSE llm' = [llm EXCEPT !.rounds = @ + 1,
                                        !.messages = Append(messages, Turn("user", results)),
                                        !.finalResult = final]
    /\ UNCHANGED <<activeThreads, lastCleanup, now, reachable, pc, event, handed, respond,
                   out, streamVars, sweep, callVars, connVars>>

PromptNext ==
    \/ PromptStart
    \/ PromptRound

PromptSpec == Init /\ [][PromptNext]_vars

----------------------------------------------------------------------------
(* The connection supervisor: Bot.start, connectWebSocket,                  *)
(* handleWebSocketReconnection and the goroutines of startEventListener     *)
MaxConns == 3         \* connections opened in one run, the first included
MaxFailed == 2        \* failed reconnection attempts in one run

agentVars == <<activeThreads, lastCleanup, now, reachable, pc, event, handed, respond,
               out, streamVars, sweep, callVars, llm>>

\* (mutant) connected means that the event channel of the handle is open
isWebSocketConnected_ChannelOpen(ws) == ws # NilClient /\ ws \notin closed

\* b.wsClient != nil && b.wsClient.EventChannel != nil; the client library
\* makes the EventChannel of every client it returns and never sets it to nil
isWebSocketConnected(ws) == ws # NilClient /\ ws \in 1..conns

\* the body of the /health handler
health == IF isWebSocketConnected(wsClient) THEN "OK" ELSE "WebSocket Disconnected"

\* log.Fatalf after the failed connectWebSocket of Bot.start
onStartupError(p) == "dead"

\* (mutant) a failed reconnection ends the process
onReconnectError_Fatal(p) == "dead"

\* log.Printf after the failed connectWebSocket of a supervisor tick
onReconnectError(p) == p

\* a goroutine of startEventListener; chan is the channel its select waits on
Listener(id, at, chan) == [id |-> id, pc |-> at, chan |-> chan]

\* (mutant) a reconnection starts no receive loop
startEventListener_None(ls, id) == ls

\* b.startEventListener(): the go statement
startEventListener(ls, id) == ls \cup {Listener(id, "start", NilClient)}

Moved(l, at, chan) == (listeners \ {l}) \cup {Listener(l.id, at, chan)}

\* (mutant) the deferred recover leaves the handle as it is
Recovered_KeepsHandle(l) ==
    /\ UNCHANGED wsClient
    /\ listeners' = listeners \ {l}

\* the deferred recover of the goroutine: b.wsClient = nil, the goroutine ends
Recovered(l) ==
    /\ wsClient' = NilClient
    /\ listeners' = listeners \ {l}

ConnInit ==
    /\ activeThreads = {}
    /\ lastCleanup = 0
    /\ now = 0
    /\ reachable = Ids
    /\ pc = "idle"
    /\ event = NoEvent
    /\ handed = FALSE
    /\ respond = FALSE
    /\ out = <<>>
    /\ chunkChan = <<>>
    /\ chanClosed = FALSE
    /\ prod = IdleProducer
    /\ ctxDone = FALSE
    /\ responseBuffer = <<>>
    /\ messageID = OwnPost
    /\ ticks = 0
    /\ placeholder = NoPlaceholder
    /\ sweep = NoSweep
    /\ ctxIn = <<>>
    /\ ctxOut = <<>>
    /\ decIn = <<>>
    /\ decOut = <<>>
    /\ llm = IdleLLM
    /\ proc = "starting"
    /\ wsClient = NilClient
    /\ closed = {}
    /\ listeners = {}
    /\ failed = 0
    /\ conns = 0

\* Bot.start: the first connectWebSocket, fatal when it fails, then
\* startEventListener and handleWebSocketReconnection
Startup ==
    /\ proc = "starting"
    /\ \E ok \in BOOLEAN :
        IF ok
        THEN /\ proc' = "running"
             /\ wsClient' = 1
             /\ conns' = 1
             /\ listeners' = startEventListener(listeners, 1)
        ELSE /\ proc' = onStartupError(proc)
             /\ UNCHANGED <<wsClient, conns, listeners>>
    /\ UNCHANGED <<closed, failed, agentVars>>

\* the check at the head of the goroutine
ListenerStart ==
    /\ proc = "running"
    /\ \E l \in listeners :
        /\ l.pc = "start"
        /\ listeners' = IF isWebSocketConnected(wsClient)
                         THEN Moved(l, "loop", NilClient)
                         ELSE listeners \ {l}
    /\ UNCHANGED <<proc, wsClient, closed, failed, conns, agentVars>>

\* the select is entered: b.wsClient.EventChannel is evaluated, which panics
\* on a nil handle
ListenerLoop ==
    /\ proc = "running"
    /\ \E l \in listeners :
        /\ l.pc = "loop"
        /\ IF wsClient = NilClient
           THEN Recovered(l)
           ELSE /\ listeners' = Moved(l, "select", wsClient)
                /\ UNCHANGED wsClient
    /\ UNCHANGED <<proc, closed, failed, conns, agentVars>>

\* case event, ok := <-b.wsClient.EventChannel: the channel is closed, or a
\* posted event is taken and handleWebSocketEvent is entered
ListenerReceive ==
    /\ proc = "running"
    /\ \E l \in listeners :
        /\ l.pc = "select"
        /\ IF l.chan \in closed
           THEN /\ wsClient' = NilClient
                /\ listeners' = listeners \ {l}
           ELSE /\ listeners' = Moved(l, "handling", l.chan)
                /\ UNCHANGED wsClient
    /\ UNCHANGED <<proc, closed, failed, conns, agentVars>>

\* MessagePosted is past the sweep, the membership test and the insertion of
\* respondWithStream, and posts and streams the reply; the single-shot reply it
\* may degrade to inserts into activeThreads once more
ListenerReply ==
    /\ proc = "running"
    /\ \E l \in listeners :
        /\ l.pc = "handling"
        /\ listeners' = Moved(l, "replying", l.chan)
    /\ UNCHANGED <<proc, wsClient, closed, failed, conns, agentVars>>

\* handleWebSocketEvent returns: the loop is at its head again
ListenerHandled ==
    /\ proc = "running"
    /\ \E l \in listeners :
        /\ l.pc \in {"handling", "replying"}
        /\ listeners' = Moved(l, "loop", NilClient)
    /\ UNCHANGED <<proc, wsClient, closed, failed, conns, agentVars>>

\* a panic raised in the handler, caught by the deferred recover
ListenerPanic ==
    /\ proc = "running"
    /\ conns < MaxConns
    /\ \E l \in listeners :
        /\ l.pc \in {"handling", "replying"}
        /\ Recovered(l)
    /\ UNCHANGED <<proc, closed, failed, conns, agentVars>>

\* the connection of a handle is lost: the client library closes its
\* EventChannel
Lose ==
    /\ proc = "running"
    /\ conns < MaxConns
    /\ \E h \in (1..conns) \ closed : closed' = closed \cup {h}
    /\ UNCHANGED <<proc, wsClient, listeners, failed, conns, agentVars>>

\* (mutant) the supervisor may read nil while the handle is set
Visible_StaleNil == {wsClient, NilClient}

\* what the supervisor's unsynchronized read of b.wsClient may give: the value
\* of the last write, or the handle the receive loop has just overwritten
Visible == {wsClient} \cup (IF wsClient = NilClient /\ conns > 0 THEN {conns} ELSE {})

\* case <-b.reconnectTicker.C
SupervisorTick ==
    /\ proc = "running"
    /\ \E seen \in Visible, ok \in BOOLEAN :
        IF isWebSocketConnected(seen)
        THEN UNCHANGED <<proc, wsClient, listeners, failed, conns>>
        ELSE IF ok
        THEN /\ conns < MaxConns
             /\ wsClient' = conns + 1
             /\ conns' = conns + 1
             /\ listeners' = startEventListener(listeners, conns + 1)
             /\ UNCHANGED <<proc, failed>>
        ELSE /\ failed < MaxFailed
             /\ failed' = failed + 1
             /\ proc' = onReconnectError(proc)
             /\ UNCHANGED <<wsClient, listeners, conns>>
    /\ UNCHANGED <<closed, agentVars>>

ConnNext ==
    \/ Startup
    \/ ListenerStart
    \/ ListenerLoop
    \/ ListenerReceive
    \/ ListenerReply
    \/ ListenerHandled
    \/ ListenerPanic
    \/ Lose
    \/ SupervisorTick

ConnSpec == ConnInit /\ [][ConnNext]_vars

\* the ticker keeps firing and the supervisor comes to see the cleared handle;
\* the goroutines of the receive loops are scheduled; every handler returns
ConnFairness ==
    /\ WF_vars(SupervisorTick)
    /\ WF_vars(ListenerStart)
    /\ WF_vars(ListenerLoop)
    /\ WF_vars(ListenerReceive)
    /\ WF_vars(ListenerHandled)

ConnLiveSpec == ConnInit /\ [][ConnNext]_vars /\ ConnFairness

----------------------------------------------------------------------------
(* Event intake while a response is generated (Spec) *)
\* C25 (as claimed): while the streaming session of one message is in progress,
\* the receive loop can take the next event.
C25_IntakeNotBlocked ==
    pc = "stream" => ENABLED Receive(Events, Responses(MaxRespLen))

----------------------------------------------------------------------------
(* The error delta (StreamSpec) *)
\* C21: when the publisher consumes an error delta, its deadline not fired, the
\* session ends in that step with one final update whose content is the buffer
\* accumulated so far followed by the error annotation; an error delta is the
\* last delta of its stream, so nothing after it is appended or published.
C21_ErrorDeltaTerminates ==
    [][(pc = "stream" /\ chunkChan # <<>> /\ Head(chunkChan).kind = "error"
            /\ ~ctxDone /\ <<pc, out, responseBuffer>>' # <<pc, out, responseBuffer>>)
        => /\ pc' = "done"
           /\ Len(out') = Len(out) + 1
           /\ out'[Len(out')].op = "update" /\ out'[Len(out')].final
           /\ out'[Len(out')].content = responseBuffer \o ErrorNote
           /\ SubSeq(out', 1, Len(out)) = out
           /\ Len(chunkChan) = 1
           /\ prod.pc = "exited"]_vars

\* a session that ended on the error delta: its last call is the final update
\* with the error annotation
C21_Witness ==
    /\ pc = "done"
    /\ out # <<>>
    /\ out[Len(out)].op = "update" /\ out[Len(out)].final
    /\ out[Len(out)].content = ErrorNote
    /\ placeholder.content = ErrorNote

----------------------------------------------------------------------------
(* A mention outside any thread starts a thread (Spec) *)
\* an event handed to the agent that mentions it, outside a DM, with an empty
\* thread-root id
IsTopLevelMention(e) ==
    /\ RouterDelivers(e)
    /\ isMentioned(PostedMessage(e))
    /\ ~PostedMessage(e).IsDM
    /\ PostedMessage(e).ThreadId = EmptyId

\* the events a step may have handled: none when the receive loop did not
\* leave its select, the event kept in the frame, any event when the step kept
\* none
TopLevelMentions == {e \in Events : IsTopLevelMention(e)}

Handled(kept) ==
    IF pc # "idle" \/ pc' = "idle" THEN {}
    ELSE IF kept = NoEvent THEN TopLevelMentions ELSE {kept}

\* the posts the agent sent in the handler
PostsOf(log) == {i \in 1..Len(log) : log[i].op = "post"}

\* C30 (as claimed): the handler of a top-level mention outside a DM decides to
\* respond, sends its reply in the thread rooted at the message's id, and that
\* id is tracked afterwards.
C30_MentionStartsThread ==
    [][\A e \in Handled(event') :
          IsTopLevelMention(e)
            => \/ /\ respond'
                  /\ PostsOf(out') # {}
                  /\ \A i \in PostsOf(out') : out'[i].thread = e.post.Id
                  /\ e.post.Id \in activeThreads'
               \/ ~Receive({e}, Responses(MaxRespLen))]_vars

\* C30 (amended): the handler of a top-level mention outside a DM decides to
\* respond and sends its reply; when the platform returns the triggering post
\* the reply is sent in the thread rooted at the message's id and that id is
\* tracked afterwards, whether or not the post call succeeds; when the platform
\* does not return the triggering post the reply is sent outside any thread and
\* no id is inserted.
C30_MentionStartsThreadIfRetrievable ==
    [][\A e \in Handled(event') :
          IsTopLevelMention(e)
            => \/ /\ respond'
                  /\ PostsOf(out') # {}
                  /\ IF e.post.Id \in reachable
                     THEN /\ \A i \in PostsOf(out') : out'[i].thread = e.post.Id
                          /\ e.post.Id \in activeThreads'
                     ELSE /\ \A i \in PostsOf(out') : out'[i].thread = EmptyId
                          /\ activeThreads' \subseteq activeThreads
               \/ ~Receive({e}, Responses(MaxRespLen))]_vars

\* a streaming session was opened for a reply posted in a thread that was not
\* tracked when the message arrived: the placeholder is in the new thread, the
\* thread is tracked
C30_Witness ==
    /\ pc = "stream"
    /\ Len(out) >= 3
    /\ out[3].op = "post" /\ out[3].ok /\ out[3].thread # EmptyId
    /\ out[1].op = "typing" /\ out[1].thread = EmptyId
    /\ activeThreads = {out[3].thread}

----------------------------------------------------------------------------
(* Properties of the tool-use loop (PromptSpec) *)
\* a round of the loop got a response from the model in this step
RoundDone == llm.pc = "loop" /\ Len(llm'.messages) > Len(llm.messages)

\* the response of the round that was completed in this step
RoundResponse == llm'.messages[Len(llm.messages) + 1].content

\* the tool invocations of a response: the positions of its tool-use blocks
Invocations(resp) == {i \in 1..Len(resp) : resp[i].kind = "tool_use"}

\* the plain-text segments of all responses of a conversation, in order
RECURSIVE AllText(_)
AllText(messages) ==
    IF messages = <<>> THEN <<>>
    ELSE (IF Head(messages).role = "assistant" THEN textOf(Head(messages).content) ELSE <<>>)
         \o AllText(Tail(messages))

\* C27: a round of the loop is followed by another round exactly when its
\* response held at least one tool invocation; otherwise Prompt returns in that
\* step, and when any text was emitted the reply is the concatenation, in order,
\* of the plain-text segments of all rounds.
C27_LoopWhileToolsInvoked ==
    [][RoundDone
        => /\ (llm'.pc = "loop") <=> (Invocations(RoundResponse) # {})
           /\ (llm'.pc = "returned") <=> (Invocations(RoundResponse) = {})
           /\ (llm'.pc = "returned" /\ AllText(llm'.messages) # <<>>)
                => (~llm'.err /\ llm'.result = AllText(llm'.messages))]_vars

\* Prompt returned after two rounds, with text "a" from the first round, which
\* invoked a tool, and text "b" from the second
C27_Witness ==
    /\ llm.pc = "returned" /\ ~llm.err
    /\ llm.rounds = 2
    /\ textOf(llm.messages[2].content) = <<"a">>
    /\ Invocations(llm.messages[2].content) # {}
    /\ llm.result = <<"a", "b">>

\* C28: a reply Prompt returns without error is not the empty string, and it is
\* the fallback phrase when no round emitted any text.
C28_ReplyNeverEmpty ==
    (llm.pc = "returned" /\ ~llm.err)
        => /\ llm.result # <<>>
           /\ AllText(llm.messages) = <<>> => llm.result = FallbackPhrase

\* Prompt returned the fallback phrase after a round that invoked a tool and a
\* round with an empty text block
C28_Witness ==
    /\ llm.pc = "returned" /\ ~llm.err
    /\ llm.rounds = 2
    /\ llm.result = FallbackPhrase
    /\ \E i \in 1..Len(llm.messages[4].content) : llm.messages[4].content[i].kind = "text"

\* the tool call of a block failed, or its input did not unmarshal
ToolFailed(b) ==
    b.kind = "tool_use" /\ b.name \in ToolNames /\ (b.input = "mismatch" \/ b.call = "fail")

\* a JSON string that starts with one of the error heads
IsErrorString(c) ==
    /\ Len(c) >= 3
    /\ c[1] = "\"" /\ c[Len(c)] = "\""
    /\ <<c[2]>> \in {<<"Invalid input: ">>} \cup {ErrorHead(n) : n \in ToolNames}

\* C29: a round whose response holds a tool invocation that failed, or whose
\* input did not match, does not make Prompt return: no error is set, the
\* conversation ends with a tool-results turn that holds an error string for
\* that invocation, and the loop is at its head for the next round.
C29_ToolErrorsAreData ==
    [][(RoundDone /\ \E i \in 1..Len(RoundResponse) : ToolFailed(RoundResponse[i]))
        => /\ ~llm'.err
           /\ llm'.pc = "loop"
           /\ Len(llm'.messages) = Len(llm.messages) + 2
           /\ LET last == llm'.messages[Len(llm'.messages)] IN
                /\ last.role = "user"
                /\ \A i \in 1..Len(RoundResponse) :
                     ToolFailed(RoundResponse[i])
                        => \E k \in 1..Len(last.content) :
                              /\ last.content[k].tool_use_id = i
                              /\ IsErrorString(last.content[k].content)]_vars

\* Prompt returned a text after a round with a failed tool call and a round
\* with an input mismatch
C29_Witness ==
    /\ llm.pc = "returned" /\ ~llm.err
    /\ llm.rounds = 3
    /\ llm.result = <<"a">>
    /\ llm.messages[3].content[1].content = <<"\"", "Error listing users: ", "asana error", "\"">>
    /\ llm.messages[5].content[1].content = <<"\"", "Invalid input: ", "unmarshal error", "\"">>

----------------------------------------------------------------------------
(* Properties of the connection supervisor (ConnSpec, ConnLiveSpec) *)
\* the connection of the current handle is lost: its event channel is closed
Lost == proc = "running" /\ wsClient # NilClient /\ wsClient \in closed

\* a receive loop waits for events on the open channel of the current handle
Consuming ==
    \E l \in listeners :
        l.pc = "select" /\ l.chan = wsClient /\ wsClient # NilClient /\ wsClient \notin closed

\* C22: once the event channel of the current handle is closed the handle is
\* eventually cleared, every successful connection attempt starts a receive
\* loop for the new handle, and eventually a receive loop waits for events on
\* the open channel of a new current handle.
C22_ReconnectionRearms ==
    /\ Lost ~> (wsClient = NilClient)
    /\ Lost ~> Consuming
    /\ [][conns' > conns
            => \E l \in listeners' \ listeners : l.id = conns' /\ wsClient' = conns']_vars

\* the first connection was lost and the receive loop of the second one waits
\* for events
C22_Witness ==
    /\ Consuming
    /\ wsClient = 2
    /\ 1 \in closed
    /\ \A l \in listeners : l.id = 2

\* C23: a failed reconnection attempt leaves the process running, the handle
\* cleared and the receive loops as they were; as long as the bot is
\* disconnected the supervisor can make one more attempt; the process ends only
\* by the failure of the connection attempt of the startup.
C23_FailedReconnectNotFatal ==
    /\ [][failed' > failed
            => (proc' = "running" /\ wsClient' = NilClient /\ listeners' = listeners)]_vars
    /\ [][proc' = "dead" => (proc \in {"starting", "dead"} /\ conns' = 0)]_vars
    /\ []((proc = "running" /\ wsClient = NilClient) => ENABLED <<SupervisorTick>>_vars)

\* reconnected after MaxFailed failed attempts
C23_Witness ==
    /\ proc = "running"
    /\ failed = MaxFailed
    /\ wsClient = 2
    /\ \E l \in listeners : l.id = 2 /\ l.pc = "select"

\* C24 (as claimed): the health signal is "OK" exactly when the current handle
\* is present and its event channel is open.
C24_HealthIffChannelOpen ==
    proc = "running"
        => ((health = "OK") <=> (wsClient # NilClient /\ wsClient \notin closed))

\* the goroutines that may read or write activeThreads: the receive loops that
\* are inside MessagePosted (no other goroutine touches the map)
Accessing == {l \in listeners : l.pc \in {"handling", "replying"}}

\* C26: at most one goroutine is in a part of the program that reads or writes
\* activeThreads, before and after every reconnection.
C26_AccessSerialized ==
    Cardinality(Accessing) <= 1

\* the receive loop started by a reconnection is in a handler
C26_Witness ==
    /\ \E l \in Accessing : l.id = 2 /\ l.pc = "handling"
    /\ 1 \in closed

----------------------------------------------------------------------------
(* Upstream failures and the event loop (Spec) *)
\* an upstream call of the handler failed: the judge call is the only call of
\* the log whose failure is not recorded, every other failed call has ok false
FailedCalls(log) == {i \in 1..Len(log) : ~log[i].ok}

----------------------------------------------------------------------------
(* The sweep's interval (SweepSpec) *)

\* a step in which an event is handed to the agent
HandedStep == pc = "idle" /\ pc' # "idle" /\ handed'

\* C32: the handler of an event handed to the agent less than CleanupInterval
\* after the last sweep probes nothing and leaves activeThreads and lastCleanup
\* as they were; otherwise the sweep acts and sets lastCleanup to the current
\* time, so that two acting sweeps are at least CleanupInterval apart.
C32_SweepInterval ==
    [][/\ HandedStep =>
            IF now - lastCleanup < CleanupInterval
            THEN /\ sweep' = sweep
                 /\ lastCleanup' = lastCleanup
                 /\ activeThreads' = activeThreads
            ELSE /\ lastCleanup' = now
                 /\ sweep'.run > sweep.run \/ sweep'.run = 2
       /\ ActingSweep => lastCleanup' - lastCleanup >= CleanupInterval]_vars

\* an event handled TimeStep after an acting sweep, with ids tracked of which
\* one is unreachable: the handler has not swept
C32_Witness ==
    /\ pc = "done" /\ handed
    /\ sweep.run = 1
    /\ lastCleanup = CleanupInterval
    /\ now = lastCleanup + TimeStep
    /\ \E t \in activeThreads : t \notin reachable

----------------------------------------------------------------------------
(* A panic in the handler (ConnLiveSpec) *)

\* the handle is cleared while the channel of the last connection is still
\* open: the state a recovered panic of the handler leaves
Faulted ==
    /\ proc = "running"
    /\ wsClient = NilClient
    /\ conns > 0 /\ conns \notin closed

\* C33: a panic raised inside the handler leaves the process running, clears
\* the handle and ends the receive loop that was in the handler; while the
\* handle is cleared the supervisor's tick can act, a tick that acts is a
\* connection attempt, and an attempt is eventually made.
C33_PanicRecovered ==
    /\ [][ListenerPanic
            => /\ proc' = "running"
               /\ wsClient' = NilClient
               /\ \E l \in Accessing :
                     /\ listeners' = listeners \ {l}
                     /\ \A k \in listeners' : k.id # l.id]_vars
    /\ [](Faulted => ENABLED <<SupervisorTick>>_vars)
    /\ [][(Faulted /\ SupervisorTick) => (conns' > conns \/ failed' > failed)]_vars
    /\ \A n \in 0..(MaxConns + MaxFailed) :
          (Faulted /\ conns + failed = n) ~> (conns + failed > n)

\* after a panic in the first receive loop the supervisor has reconnected: the
\* first channel was never closed and the loop of the second handle is waiting
C33_Witness ==
    /\ proc = "running"
    /\ wsClient = 2
    /\ closed = {}
    /\ listeners = {Listener(2, "select", 2)}

----------------------------------------------------------------------------
(* The precedence of mention and DM over the thread judgment (Spec) *)

\* the events a handler step may have handled: the one kept in the frame, or
\* any event when the streaming session has taken the frame over
HandledEvents(kept) ==
    IF pc # "idle" \/ pc' = "idle" THEN {}
    ELSE IF kept = NoEvent THEN Events ELSE {kept}

\* the decision LLM was called in the handler
JudgedIn(log) == \E i \in 1..Len(log) : log[i].op = "judge"

\* C34: the handler calls the decision LLM only for a message without a mention,
\* outside a DM, whose thread-root id is non-empty and is tracked before and
\* after the handler's sweep; the handler of a mention or of a DM makes no such
\* call.
C34_JudgeOnlyInActiveThread ==
    [][\A e \in HandledEvents(event') :
          JudgedIn(out')
            => \/ /\ ~isMentioned(PostedMessage(e))
                  /\ e.channel_type # "D"
                  /\ e.post.RootId # EmptyId
                  /\ e.post.RootId \in activeThreads
                  /\ e.post.RootId \in activeThreads'
               \/ ~Receive({e}, Responses(MaxRespLen))]_vars

\* a message without a mention in a tracked thread was judged and the agent
\* stays silent
C34_Witness ==
    /\ pc = "done" /\ handed
    /\ JudgedIn(out)
    /\ ~respond
    /\ ~isMentioned(msg) /\ ~msg.IsDM
    /\ msg.ThreadId \in activeThreads

----------------------------------------------------------------------------
(* The turns a round adds to the conversation (PromptSpec) *)

\* C35: a round whose response holds tool invocations appends to the
\* conversation the assistant turn with the response and then one user turn
\* that holds one tool result for each invocation and nothing else, with the
\* ids of the invocations in their order; the invocation of a name outside the
\* catalog has its result too, the JSON null.
C35_OneResultPerInvocation ==
    [][(RoundDone /\ Invocations(RoundResponse) # {})
        => LET n == Len(llm.messages)
               last == llm'.messages[n + 2]
           IN  /\ Len(llm'.messages) = n + 2
               /\ SubSeq(llm'.messages, 1, n) = llm.messages
               /\ llm'.messages[n + 1].role = "assistant"
               /\ last.role = "user"
               /\ Len(last.content) = Cardinality(Invocations(RoundResponse))
               /\ \A k \in 1..Len(last.content) :
                     /\ last.content[k].tool_use_id \in Invocations(RoundResponse)
                     /\ k < Len(last.content)
                          => last.content[k].tool_use_id < last.content[k + 1].tool_use_id
                     /\ RoundResponse[last.content[k].tool_use_id].name \notin ToolNames
                          => last.content[k].content = <<"null">>]_vars

\* a round invoked a tool of the catalog and then a name outside it: the
\* tool-results turn holds both results in that order
C35_Witness ==
    /\ llm.pc = "loop"
    /\ Len(llm.messages) = 3
    /\ Len(llm.messages[2].content) = 2
    /\ llm.messages[2].content[1].name \in ToolNames
    /\ llm.messages[2].content[2].name = "other_tool"
    /\ Len(llm.messages[3].content) = 2
    /\ llm.messages[3].content[1].tool_use_id = 1
    /\ llm.messages[3].content[2] = ToolResult(2, <<"null">>)

----------------------------------------------------------------------------
(* The sweeper over an unbounded run: time.Since(a.lastCleanup) is all the
   code reads of the two timestamps, so the clock is kept within
   0..2 * CleanupInterval by moving its origin *)

\* time passes between two handlers
Elapse ==
    /\ pc = "idle"
    /\ IF now + TimeStep <= 2 * CleanupInterval
       THEN /\ now' = now + TimeStep
            /\ UNCHANGED lastCleanup
       ELSE /\ now' = now
            /\ lastCleanup' = IF lastCleanup < TimeStep THEN 0 ELSE lastCleanup - TimeStep
    /\ UNCHANGED <<activeThreads, reachable, pc, event, handed, respond, out,
                   streamVars, sweep, callVars, connVars, llm>>

\* an acting sweep whose range loop visits the id t
SweepProbes(t) ==
    /\ sweepDue
    /\ Receive(SweepEvents, {})
    /\ t \in sweep'.probed

\* the posts that are deleted or restored in these runs
ChangingIds == {1, MaxSweepId}

\* at least SampleBound ids are tracked at the start
SweepLiveInit == SweepInit /\ Cardinality(activeThreads) >= SampleBound

SweepLiveNext ==
    \/ Receive(SweepEvents, {})
    \/ LoopBack
    \/ Elapse
    \/ PlatformChange(ChangingIds)

\* time passes and events keep arriving; every handler returns; the Go runtime
\* starts each range over a map at a random position, so that an id that stays
\* in the map is among the visited ones again and again
SweepFairness ==
    /\ SF_vars(Elapse)
    /\ WF_vars(LoopBack)
    /\ \A t \in SweepIds : SF_vars(SweepProbes(t))

SweepLiveSpec == SweepLiveInit /\ [][SweepLiveNext]_vars /\ SweepFairness

----------------------------------------------------------------------------
(* The number of receive loops (ConnSpec) *)

\* C37: there is never more than one goroutine of startEventListener, so never
\* two that take events; a receive loop is started only when the handle is
\* cleared and the loop before it has ended.
C37_OneReceiveLoop ==
    /\ [](Cardinality(listeners) <= 1)
    /\ [][listeners' \ listeners # {} /\ (\E l \in listeners' : l.pc = "start")
            => /\ wsClient = NilClient
               /\ listeners = {}
               /\ \A l \in listeners' : l.id = wsClient' /\ l.id = conns']_vars

\* after a lost connection and a panic in the handler the loop of the third
\* handle is the only one and is in the handler
C37_Witness ==
    /\ proc = "running"
    /\ wsClient = 3
    /\ closed = {1}
    /\ listeners = {Listener(3, "handling", 3)}

----------------------------------------------------------------------------
(* What the response path does to activeThreads (Spec) *)

\* activeThreads when the sweep of the handler step has returned
Swept ==
    IF now - lastCleanup < CleanupInterval THEN activeThreads
    ELSE activeThreads \ {t \in sweep'.probed : t \notin reachable}

\* the ids the response path may add for the event e
Insertable(e) ==
    IF e.post.RootId # EmptyId THEN {e.post.RootId}
    ELSE IF isMentioned(PostedMessage(e)) /\ e.post.Id \in reachable THEN {e.post.Id}
    ELSE {}

\* the typing indicator of the handler was not sent for the thread of e
OtherThread(e) ==
    \E i \in 1..Len(out') : out'[i].op = "typing" /\ out'[i].thread # e.post.RootId

\* C38: the empty id is never in activeThreads; the handler of a message the
\* agent responds to adds, to the set its sweep has left, the message's
\* thread-root id when that is not empty, else the message's own id when the
\* message mentions the agent and its post is reachable, else nothing; the
\* handler of a message the agent does not respond to adds nothing; the response
\* path removes no id.
C38_InsertionsOfOneHandler ==
    /\ [](EmptyId \notin activeThreads)
    /\ [][\A e \in HandledEvents(event') :
            \/ ~handed'
            \/ /\ Swept \subseteq activeThreads'
               /\ Cardinality(activeThreads' \ Swept) <= 1
               /\ activeThreads' = Swept \cup (IF respond' THEN Insertable(e) ELSE {})
            \/ OtherThread(e)
            \/ ~Receive({e}, Responses(MaxRespLen))]_vars

\* the reply to a DM outside a thread, without a mention, has been posted while
\* a thread is tracked, and nothing was added
C38_Witness ==
    /\ pc = "done" /\ handed /\ respond
    /\ msg.IsDM /\ msg.ThreadId = EmptyId /\ ~isMentioned(msg)
    /\ \E i \in PostsOf(out) : out[i].ok
    /\ activeThreads # {}
    /\ msg.PostId \notin activeThreads

----------------------------------------------------------------------------
(* The target of the updates of a streaming session (StreamSpec) *)

\* C39 (as claimed): every update of a streaming session, intermediate or
\* terminal, is an update of the placeholder that the session has posted.
C39_UpdatesTargetPlaceholder ==
    \A i \in 1..Len(out) : out[i].op = "update" => out[i].id = OwnPost

----------------------------------------------------------------------------
(* Posts and main-LLM requests of one handler (Spec) *)

\* the requests to the main LLM in the handler: PromptStream and Prompt
RequestsOf(log) == {i \in 1..Len(log) : log[i].op \in {"stream", "prompt"}}

\* C40 (as claimed): the handler of one message creates at most one outgoing
\* message and starts at most one request to the main LLM.
C40_OnePostOneRequest ==
    /\ Cardinality(PostsOf(out)) <= 1
    /\ Cardinality(RequestsOf(out)) <= 1

====
